---- MODULE Spec2Model ----
(***************************************************************************)
(* Model of ReflectionAgent (src/agent copy/reflection_agent.py): the      *)
(* generate/critique loop `run`, the reply adapter `_call_model`, the stop *)
(* test `_should_stop`, and the verifier `verify_code`.                    *)
(*                                                                         *)
(* Text is a sequence of one-character strings, so that trimming,          *)
(* lower-casing, substring search and line splitting are computed.         *)
(* A Python value is a record [t, v]: t is its type ("str", "none",        *)
(* "int", "list"), v its text (str), its digits (int) or its items (list). *)
(***************************************************************************)
EXTENDS Integers, Sequences, FiniteSets, TLC

VARIABLES
    \* ---- ReflectionAgent.run ----
    pc,                 \* position in run
    n_steps,            \* argument n_steps
    stop_on_ok,         \* self.stop_on_ok
    delay_between_steps,\* argument delay_between_steps
    step,               \* loop variable
    generation_history, \* the generation transcript
    rounds,             \* list of round records
    final_assistant,    \* last generation text
    generation_text,    \* local of the loop body
    critique_text,      \* local of the loop body
    calls,              \* client calls made so far: kind and messages sent
    sleeps,             \* steps after which time.sleep was called
    result,             \* <<>> until run returns, then <<the returned dict>>
    \* ---- ReflectionAgent._should_stop called on its own ----
    arg_critique,       \* the argument
    ret_stop,           \* <<>> until called, then <<outcome>>
    \* ---- ReflectionAgent.verify_code ----
    vpc,                \* position in verify_code
    code,               \* the payload
    vresult,            \* the result dict
    func_names,         \* names found by the AST walk
    fn,                 \* <<>> or <<name under test>>
    tests,              \* the selected test vectors
    ns,                 \* the namespace the payload was executed in
    exec_count,         \* times the payload was executed
    test_idx,           \* position in the test loop
    passed,             \* local counter
    run_count,          \* local counter
    call_log,           \* inputs the function under test was called with
    \* ---- the caller of verify_code ----
    call_no,            \* 0, or which call of verify_code this is
    first_result,       \* <<>>, or <<what the first call returned>>
    \* ---- ReflectionAgent.extract_code_blocks called on its own ----
    arg_text,           \* the argument
    ret_blocks,         \* <<>> until called, then <<the list returned>>
    \* ---- ReflectionAgent.verify_generation_text ----
    gpc,                \* position in verify_generation_text
    generation,         \* the argument generation_text
    codes,              \* the extracted blocks
    gresult             \* <<>> until it returns, then <<the returned dict>>

runVars == <<pc, n_steps, stop_on_ok, delay_between_steps, step,
             generation_history, rounds, final_assistant, generation_text,
             critique_text, calls, sleeps, result>>
stopVars == <<arg_critique, ret_stop>>
verVars == <<vpc, code, vresult, func_names, fn, tests, ns, exec_count,
             test_idx, passed, run_count, call_log>>
callerVars == <<call_no, first_result>>
extractVars == <<arg_text, ret_blocks>>
genVars == <<gpc, generation, codes, gresult>>
vars == <<runVars, stopVars, verVars, callerVars, extractVars, genVars>>

(***************************************************************************)
(* Bounds of the model.                                                    *)
(***************************************************************************)
MaxSteps == 3
MaxLen == 4
MaxStmts == 2
MaxTokens == 5

(***************************************************************************)
(* Python values and text.                                                 *)
(***************************************************************************)
Str(s) == [t |-> "str", v |-> s]
NoneVal == [t |-> "none", v |-> <<>>]
IntVal(digits) == [t |-> "int", v |-> digits]
ListVal(items) == [t |-> "list", v |-> items]
Unbound == [t |-> "unbound", v |-> <<>>]

\* bool(x) for the values of the model: a str, an int, a list or None
Truthy(x) ==
    CASE x.t = "str" -> x.v # <<>>
      [] x.t = "int" -> x.v # <<"0">>
      [] x.t = "list" -> x.v # <<>>
      [] x.t = "none" -> FALSE

UpperToLower ==
    [A |-> "a", B |-> "b", C |-> "c", D |-> "d", E |-> "e", F |-> "f",
     G |-> "g", H |-> "h", I |-> "i", J |-> "j", K |-> "k", L |-> "l",
     M |-> "m", N |-> "n", O |-> "o", P |-> "p", Q |-> "q", R |-> "r",
     S |-> "s", T |-> "t", U |-> "u", V |-> "v", W |-> "w", X |-> "x",
     Y |-> "y", Z |-> "z"]


\* A character that a string of this language cannot hold is written by
\* its code point.
VT == "U+000B"
FS == "U+001C"
GS == "U+001D"
RS == "U+001E"
US == "U+001F"
NEL == "U+0085"
NBSP == "U+00A0"
LS == "U+2028"
PS == "U+2029"

\* the white space beyond U+00A0 that is no line break
WideSpaces ==
    {"U+1680", "U+2000", "U+2001", "U+2002", "U+2003", "U+2004", "U+2005",
     "U+2006", "U+2007", "U+2008", "U+2009", "U+200A", "U+202F", "U+205F",
     "U+3000"}

\* the characters str.strip() removes and \s matches: those of
\* str.isspace()
Whitespace ==
    {" ", "\t", "\n", "\r", "\f", VT, FS, GS, RS, US, NEL, NBSP, LS, PS}
    \cup WideSpaces

\* the characters str.splitlines() breaks at
LineBreaks == {"\n", "\r", "\f", VT, FS, GS, RS, NEL, LS, PS}

\* the character U+0060 (grave accent)
Backtick == "U+0060"

\* U+212A KELVIN SIGN, whose lower case is k, and U+0130 LATIN CAPITAL
\* LETTER I WITH DOT ABOVE, whose lower case is i and U+0307
KELVIN == "U+212A"
DOTTED_I == "U+0130"
DOT_ABOVE == "U+0307"

Digits == {"0", "1", "2", "3", "4", "5", "6", "7", "8", "9"}

Punctuation ==
    {"!", "\"", "#", "$", "%", "&", "'", "(", ")", "*", "+", ",", "-", ".",
     "/", ":", ";", "<", "=", ">", "?", "@", "[", "\\", "]", "^", "_",
     Backtick, "{", "|", "}", "~"}

\* the characters of the model's texts that str.lower() leaves as they are
Uncased ==
    {UpperToLower[u] : u \in DOMAIN UpperToLower}
    \cup Digits \cup Punctuation \cup Whitespace \cup {DOT_ABOVE}

\* c.lower(), for the characters of the model's texts: ASCII, the white
\* space, and the two characters beyond ASCII whose lower case holds an
\* ASCII letter.  The lower case of any other character is not modelled.
LowerCh(c) ==
    CASE c \in DOMAIN UpperToLower -> <<UpperToLower[c]>>
      [] c = KELVIN -> <<"k">>
      [] c = DOTTED_I -> <<"i", DOT_ABOVE>>
      [] c \in Uncased -> <<c>>

RECURSIVE lower(_)
\* str.lower()
lower(s) == IF s = <<>> THEN <<>> ELSE LowerCh(Head(s)) \o lower(Tail(s))

RECURSIVE lstrip(_)
lstrip(s) ==
    IF s # <<>> /\ Head(s) \in Whitespace THEN lstrip(Tail(s)) ELSE s

RECURSIVE rstrip(_)
rstrip(s) ==
    IF s # <<>> /\ s[Len(s)] \in Whitespace
    THEN rstrip(SubSeq(s, 1, Len(s) - 1))
    ELSE s

\* str.strip()
strip(s) == rstrip(lstrip(s))

\* sub in s
Contains(s, sub) ==
    \E i \in 0..(Len(s) - Len(sub)) : SubSeq(s, i + 1, i + Len(sub)) = sub

RECURSIVE SplitLinesRec(_, _)
SplitLinesRec(s, cur) ==
    IF s = <<>> THEN (IF cur = <<>> THEN <<>> ELSE <<cur>>)
    ELSE IF Head(s) \in LineBreaks
    THEN LET rest == IF Head(s) = "\r" /\ Len(s) >= 2 /\ s[2] = "\n"
                     THEN SubSeq(s, 3, Len(s))
                     ELSE Tail(s)
         IN  <<cur>> \o SplitLinesRec(rest, <<>>)
    ELSE SplitLinesRec(Tail(s), Append(cur, Head(s)))

\* str.splitlines()
splitlines(s) == SplitLinesRec(s, <<>>)

(***************************************************************************)
(* ReflectionAgent._should_stop                                            *)
(***************************************************************************)
OK_MARKER == <<"<", "o", "k", ">">>
OK_WORD == <<"o", "k">>

\* lines 111-119, without the lower-casing
ShouldStopText_NoLower(s) ==
    LET lowered == strip(s) IN
    \/ Contains(lowered, OK_MARKER)
    \/ lowered = OK_WORD
    \/ \E i \in 1..Len(splitlines(s)) : strip(splitlines(s)[i]) = OK_WORD

\* lines 111-119, for a non-empty str
ShouldStopText(s) ==
    LET lowered == lower(strip(s)) IN
    \/ Contains(lowered, OK_MARKER)
    \/ lowered = OK_WORD
    \/ \E i \in 1..Len(splitlines(s)) :
            lower(strip(splitlines(s)[i])) = OK_WORD

\* "True", "False", or the exception raised: a truthy value that is no str
\* has no strip()
_should_stop(critique) ==
    IF ~Truthy(critique) THEN "False"
    ELSE IF critique.t # "str" THEN "AttributeError"
    ELSE IF ShouldStopText(critique.v) THEN "True"
    ELSE "False"

(***************************************************************************)
(* Replies of the client and ReflectionAgent._call_model                   *)
(*                                                                         *)
(* A reply is [shape, choices, message, content]:                          *)
(*   shape   "attr" (an object with attributes, types.SimpleNamespace),    *)
(*           "dict" (a nested mapping) or "raw" (any other value);         *)
(*   choices "absent", "empty" or "one";                                   *)
(*   message "absent", "none" or "present";                                *)
(*   content Absent, or the value of the content field (for "raw": the     *)
(*           reply itself).                                                *)
(***************************************************************************)
Absent == [t |-> "absent", v |-> <<>>]

Reply(shape, choices, message, content) ==
    [shape |-> shape, choices |-> choices, message |-> message,
     content |-> content]

T_None == <<"N", "o", "n", "e">>

\* str(resp) of a mapping
DictStr(resp) ==
    LET msg == IF resp.message = "absent" THEN <<>>
               ELSE <<"'", "m", "e", "s", "s", "a", "g", "e", "'", ":", " ">>
                    \o (IF resp.message = "none" THEN T_None
                        ELSE <<"{", "}">>)
        inner == IF resp.choices = "empty" THEN <<>>
                 ELSE <<"{">> \o msg \o <<"}">>
    IN  IF resp.choices = "absent" THEN <<"{", "}">>
        ELSE <<"{", "'", "c", "h", "o", "i", "c", "e", "s", "'", ":", " ",
               "[">> \o inner \o <<"]", "}">>

T_namespace == <<"n", "a", "m", "e", "s", "p", "a", "c", "e", "(">>

\* str(resp) of a types.SimpleNamespace
AttrStr(resp) ==
    LET msg == IF resp.message = "absent" THEN <<>>
               ELSE <<"m", "e", "s", "s", "a", "g", "e", "=">>
                    \o (IF resp.message = "none" THEN T_None
                        ELSE T_namespace \o <<")">>)
        inner == IF resp.choices = "empty" THEN <<>>
                 ELSE T_namespace \o msg \o <<")">>
    IN  IF resp.choices = "absent" THEN T_namespace \o <<")">>
        ELSE T_namespace \o <<"c", "h", "o", "i", "c", "e", "s", "=", "[">>
             \o inner \o <<"]", ")">>

RECURSIVE Decimal(_)
\* str(n) of an int n
Decimal(n) ==
    IF n < 0 THEN <<"-">> \o Decimal(0 - n)
    ELSE IF n < 10
    THEN <<<<"0", "1", "2", "3", "4", "5", "6", "7", "8", "9">>[n + 1]>>
    ELSE Decimal(n \div 10) \o Decimal(n % 10)

RECURSIVE ItemsStr(_)
ItemsStr(items) ==
    IF items = <<>> THEN <<>>
    ELSE IF Len(items) = 1 THEN Decimal(items[1])
    ELSE Decimal(items[1]) \o <<",", " ">> \o ItemsStr(Tail(items))

\* str(x) of a list of ints
ListStr(items) == <<"[">> \o ItemsStr(items) \o <<"]">>

\* str(resp), line 105
PyStr(resp) ==
    CASE resp.shape = "dict" -> DictStr(resp)
      [] resp.shape = "attr" -> AttrStr(resp)
      [] resp.content.t = "none" -> T_None
      [] resp.content.t = "list" -> ListStr(resp.content.v)
      [] resp.content.t \in {"str", "int"} -> resp.content.v

\* lines 90-97: <<value>> when the attribute path returns, <<>> when it
\* falls through (an exception swallowed, or message is None)
AttrStyle(resp) ==
    IF /\ resp.shape = "attr"
       /\ resp.choices = "one"
       /\ resp.message = "present"
       /\ resp.content # Absent
    THEN <<resp.content>>
    ELSE <<>>

\* lines 98-103
DictStyle(resp) ==
    IF /\ resp.shape = "dict"
       /\ resp.choices = "one"
       /\ resp.message = "present"
       /\ resp.content # Absent
    THEN <<resp.content>>
    ELSE <<>>

\* lines 88-105: the value returned for the reply resp
_call_model(resp) ==
    IF AttrStyle(resp) # <<>> THEN AttrStyle(resp)[1]
    ELSE IF DictStyle(resp) # <<>> THEN DictStyle(resp)[1]
    ELSE Str(PyStr(resp))

(***************************************************************************)
(* ReflectionAgent.run                                                     *)
(***************************************************************************)
\* the arguments user_msg, generation_system_prompt, reflection_system_prompt
user_msg == Str(<<"t", "a", "s", "k">>)
generation_system_prompt == Str(<<"g", "e", "n">>)
reflection_system_prompt == Str(<<"r", "e", "v">>)

\* the replies the client gives to a generation call
GenReplies ==
    { Reply("dict", "one", "present", Str(<<"c", "o", "d", "e">>)),
      Reply("attr", "one", "none", Absent) }

\* the replies the client gives to a reflection call
CritReplies ==
    { Reply("dict", "one", "present", Str(<<"<", "O", "K", ">">>)),
      Reply("attr", "one", "present",
            Str(<<"n", "e", "e", "d", "s", " ", "w", "o", "r", "k">>)),
      Reply("raw", "absent", "absent", Str(<<"o", "k">>)),
      Reply("dict", "one", "present", NoneVal),
      Reply("dict", "one", "present", IntVal(<<"5">>)),
      Reply("dict", "empty", "absent", Absent) }

Message(role, content) == [role |-> role, content |-> content]

\* lines 133-136
InitialHistory ==
    <<Message("system", generation_system_prompt), Message("user", user_msg)>>

\* lines 157-160, sending the generation transcript along
ReflectionHistory_WithTask(gen) ==
    <<Message("system", reflection_system_prompt), Message("user", user_msg),
      Message("user", gen)>>

\* lines 157-160
ReflectionHistory(gen) ==
    <<Message("system", reflection_system_prompt), Message("user", gen)>>

\* lines 164-170, with the generation and the critique exchanged
RoundRecord_Swapped(gen, crit, s) ==
    [generation_text |-> crit, critique_text |-> gen, step |-> s]

\* lines 164-170, numbering the rounds from 0
RoundRecord_ZeroBased(gen, crit, s) ==
    [generation_text |-> gen, critique_text |-> crit, step |-> s - 1]

\* lines 164-170
RoundRecord(gen, crit, s) ==
    [generation_text |-> gen, critique_text |-> crit, step |-> s]

\* line 141, as a loop that tests its condition after the body
HasNextStep_BodyFirst(s, n) == s = 0 \/ s + 1 <= n

\* line 141: range(1, n_steps + 1) has a value after s
HasNextStep(s, n) == s + 1 <= n

\* line 178, ignoring stop_on_ok
StopDecision_Always(enabled, crit) == _should_stop(crit)

\* line 178: self.stop_on_ok and self._should_stop(critique_text)
StopDecision(enabled, crit) ==
    IF ~enabled THEN "False" ELSE _should_stop(crit)

\* line 162, putting the critique before the generation
AppendCritique_Front(history, crit) ==
    SubSeq(history, 1, Len(history) - 1) \o
    <<Message("user", crit), history[Len(history)]>>

\* line 162, recording the critique under the assistant role
AppendCritique_Assistant(history, crit) ==
    Append(history, Message("assistant", crit))

\* line 162
AppendCritique(history, crit) == Append(history, Message("user", crit))

RunInit ==
    /\ pc = "loop"
    /\ n_steps \in -1..MaxSteps
    /\ stop_on_ok \in BOOLEAN
    /\ delay_between_steps \in {0, 1}
    /\ step = 0
    /\ generation_history = InitialHistory
    /\ rounds = <<>>
    /\ final_assistant = Str(<<>>)
    /\ generation_text = Unbound
    /\ critique_text = Unbound
    /\ calls = <<>>
    /\ sleeps = <<>>
    /\ result = <<>>

\* lines 141, 149-150: the loop takes its next step and calls the client
\* for a generation
Generate ==
    /\ pc = "loop"
    /\ HasNextStep(step, n_steps)
    /\ \E resp \in GenReplies :
        /\ generation_text' = _call_model(resp)
        /\ generation_history' =
              Append(generation_history,
                     Message("assistant", _call_model(resp)))
    /\ calls' = Append(calls, [kind |-> "generation",
                               messages |-> generation_history])
    /\ step' = step + 1
    /\ pc' = "reflect"
    /\ UNCHANGED <<n_steps, stop_on_ok, delay_between_steps, rounds,
                   final_assistant, critique_text, sleeps, result>>

\* lines 157-162: the reflection call on a fresh two-message transcript
Reflect ==
    /\ pc = "reflect"
    /\ \E resp \in CritReplies :
        /\ critique_text' = _call_model(resp)
        /\ generation_history' =
              AppendCritique(generation_history, _call_model(resp))
    /\ calls' = Append(calls, [kind |-> "reflection",
                               messages |-> ReflectionHistory(generation_text)])
    /\ pc' = "record"
    /\ UNCHANGED <<n_steps, stop_on_ok, delay_between_steps, step, rounds,
                   final_assistant, generation_text, sleeps, result>>

\* lines 164-176
Record ==
    /\ pc = "record"
    /\ rounds' = Append(rounds,
                        RoundRecord(generation_text, critique_text, step))
    /\ final_assistant' = generation_text
    /\ pc' = "check"
    /\ UNCHANGED <<n_steps, stop_on_ok, delay_between_steps, step,
                   generation_history, generation_text, critique_text,
                   calls, sleeps, result>>

\* lines 178-181: the critique approves and the loop is left
Break ==
    /\ pc = "check"
    /\ StopDecision(stop_on_ok, critique_text) = "True"
    /\ pc' = "return"
    /\ UNCHANGED <<n_steps, stop_on_ok, delay_between_steps, step,
                   generation_history, rounds, final_assistant,
                   generation_text, critique_text, calls, sleeps, result>>

\* line 178: _should_stop raises and the exception leaves run
Raise ==
    /\ pc = "check"
    /\ StopDecision(stop_on_ok, critique_text) = "AttributeError"
    /\ pc' = "raised"
    /\ UNCHANGED <<n_steps, stop_on_ok, delay_between_steps, step,
                   generation_history, rounds, final_assistant,
                   generation_text, critique_text, calls, sleeps, result>>

\* lines 178, 183: no stop, no delay configured
Continue ==
    /\ pc = "check"
    /\ StopDecision(stop_on_ok, critique_text) = "False"
    /\ ~(delay_between_steps > 0)
    /\ pc' = "loop"
    /\ UNCHANGED <<n_steps, stop_on_ok, delay_between_steps, step,
                   generation_history, rounds, final_assistant,
                   generation_text, critique_text, calls, sleeps, result>>

\* lines 183-184: no stop, time.sleep(delay_between_steps)
Sleep ==
    /\ pc = "check"
    /\ StopDecision(stop_on_ok, critique_text) = "False"
    /\ delay_between_steps > 0
    /\ sleeps' = Append(sleeps, step)
    /\ pc' = "loop"
    /\ UNCHANGED <<n_steps, stop_on_ok, delay_between_steps, step,
                   generation_history, rounds, final_assistant,
                   generation_text, critique_text, calls, result>>

\* line 141: the range is exhausted
Exhausted ==
    /\ pc = "loop"
    /\ ~HasNextStep(step, n_steps)
    /\ pc' = "return"
    /\ UNCHANGED <<n_steps, stop_on_ok, delay_between_steps, step,
                   generation_history, rounds, final_assistant,
                   generation_text, critique_text, calls, sleeps, result>>

\* lines 186-190
Return ==
    /\ pc = "return"
    /\ result' = <<[final_assistant |-> final_assistant,
                    rounds |-> rounds,
                    generation_history |-> generation_history]>>
    /\ pc' = "done"
    /\ UNCHANGED <<n_steps, stop_on_ok, delay_between_steps, step,
                   generation_history, rounds, final_assistant,
                   generation_text, critique_text, calls, sleeps>>

\* run is not being executed
RunIdle ==
    /\ pc = "idle"
    /\ n_steps = 0
    /\ stop_on_ok = TRUE
    /\ delay_between_steps = 0
    /\ step = 0
    /\ generation_history = <<>>
    /\ rounds = <<>>
    /\ final_assistant = Str(<<>>)
    /\ generation_text = Unbound
    /\ critique_text = Unbound
    /\ calls = <<>>
    /\ sleeps = <<>>
    /\ result = <<>>

(***************************************************************************)
(* _should_stop called on its own, on every short text                     *)
(***************************************************************************)
Alphabet == {"o", "K", "<", ">", " ", "\n", "\f", "x"}

RECURSIVE TextsOfLen(_)
TextsOfLen(n) ==
    IF n = 0 THEN {<<>>}
    ELSE {Append(s, c) : s \in TextsOfLen(n - 1), c \in Alphabet}

Texts == UNION {TextsOfLen(n) : n \in 0..MaxLen}

\* the critiques the specification names
Examples ==
    { <<"<", "O", "K", ">">>,
      <<"o", "k">>,
      <<" ", " ", "O", "K", " ", " ">>,
      <<"b", "a", "d", "\n", " ", "o", "k", " ", "\n", "x">>,
      <<"L", "o", "o", "k", "s", " ", "f", "i", "n", "e", ",", " ", "b",
        "u", "t", " ", "n", "e", "e", "d", "s", " ", "w", "o", "r", "k">>,
      <<"\t", "O", "k", "\r", "\n", "<", "o">> }

\* values that are no text
NonTexts ==
    {NoneVal, IntVal(<<"0">>), IntVal(<<"5">>), ListVal(<<>>), ListVal(<<1>>)}

\* critiques whose k is the Kelvin sign or whose i carries a dot
BeyondAscii ==
    { <<"<", "O", KELVIN, ">">>,
      <<"O", KELVIN>>,
      <<"x", "\n", "o", KELVIN, " ", "\n", "x">>,
      <<"<", "o", DOTTED_I, ">">>,
      <<"o", "k", DOT_ABOVE>> }

StopInit ==
    /\ arg_critique \in
          {Str(s) : s \in Texts \cup Examples \cup BeyondAscii} \cup NonTexts
    /\ ret_stop = <<>>

CallShouldStop ==
    /\ ret_stop = <<>>
    /\ ret_stop' = <<_should_stop(arg_critique)>>
    /\ UNCHANGED arg_critique

StopIdle ==
    /\ arg_critique = Unbound
    /\ ret_stop = <<>>

(***************************************************************************)
(* ReflectionAgent.verify_code                                             *)
(*                                                                         *)
(* A payload is [parses, body]: whether ast.parse accepts it, and its      *)
(* top-level statements [kind, name, beh]:                                 *)
(*   "def"    def name(arr): ...  behaving as beh                          *)
(*   "if"     if True: def name(arr): ...  (a function one level down,     *)
(*            bound when the payload is executed)                          *)
(*   "class"  class A: def name(self, arr): ...  (a method: never bound    *)
(*            in the namespace under its own name)                         *)
(*   "assign" name = 1                                                     *)
(*   "raise"  a statement that raises an Exception when executed          *)
(*   "exit"   a statement that raises SystemExit when executed (sys.exit), *)
(*            which is no Exception                                        *)
(* beh says what a function returns for a list: "asc" sorted ascending,    *)
(* "desc" sorted descending, "identity" its argument, "none" None,         *)
(* "raise" an Exception, "raise_empty" an Exception on the empty list and  *)
(* the ascending sort otherwise, "exit_empty" SystemExit on the empty list *)
(* and the ascending sort otherwise.                                       *)
(***************************************************************************)
N_merge_sort == <<"m", "e", "r", "g", "e", "_", "s", "o", "r", "t">>
N_BubbleSort == <<"B", "u", "b", "b", "l", "e", "S", "o", "r", "t">>
N_add_numbers == <<"a", "d", "d", "_", "n", "u", "m", "b", "e", "r", "s">>
N_A == <<"A">>

Names == {N_merge_sort, N_BubbleSort, N_add_numbers}
Behaviours ==
    {"asc", "desc", "identity", "none", "raise", "raise_empty", "exit_empty"}

Stmt(kind, name, beh) == [kind |-> kind, name |-> name, beh |-> beh]

Stmts ==
    {Stmt("def", n, b) : n \in Names, b \in Behaviours}
    \cup {Stmt("if", n, b) : n \in Names, b \in {"asc", "desc"}}
    \cup {Stmt("class", n, "asc") : n \in Names}
    \cup {Stmt("assign", n, "none") : n \in Names}
    \cup {Stmt("raise", <<>>, "none"), Stmt("exit", <<>>, "none")}

RECURSIVE BodiesOfLen(_)
BodiesOfLen(n) ==
    IF n = 0 THEN {<<>>}
    ELSE {Append(b, st) : b \in BodiesOfLen(n - 1), st \in Stmts}

Payloads ==
    {[parses |-> FALSE, body |-> <<>>]}
    \cup {[parses |-> TRUE, body |-> b] :
            b \in UNION {BodiesOfLen(n) : n \in 0..MaxStmts}}

RECURSIVE NamesOfKinds(_, _)
NamesOfKinds(body, kinds) ==
    IF body = <<>> THEN <<>>
    ELSE (IF Head(body).kind \in kinds THEN <<Head(body).name>> ELSE <<>>)
         \o NamesOfKinds(Tail(body), kinds)

\* line 224: ast.walk is breadth first, so the FunctionDef nodes directly
\* under the module come first, then those one level down
FuncNames(body) ==
    NamesOfKinds(body, {"def"}) \o NamesOfKinds(body, {"if", "class"})

\* lines 238-249, running the sorting tests whatever the name
SelectTests_Always(name) ==
    << [inp |-> <<3, 1, 2>>, expected |-> <<1, 2, 3>>],
       [inp |-> <<>>, expected |-> <<>>],
       [inp |-> <<5, 4, 3, 2, 1>>, expected |-> <<1, 2, 3, 4, 5>>],
       [inp |-> <<1>>, expected |-> <<1>>] >>

\* lines 238-249
SelectTests(name) ==
    IF Contains(lower(name), <<"s", "o", "r", "t">>)
    THEN << [inp |-> <<3, 1, 2>>, expected |-> <<1, 2, 3>>],
            [inp |-> <<>>, expected |-> <<>>],
            [inp |-> <<5, 4, 3, 2, 1>>, expected |-> <<1, 2, 3, 4, 5>>],
            [inp |-> <<1>>, expected |-> <<1>>] >>
    ELSE <<>>

\* the namespace is a list of bindings, the last one for a name being
\* the current one
Binding(name, callable, beh) ==
    [name |-> name, callable |-> callable, beh |-> beh]

\* the effect of executing one statement that does not raise
Bind(st) ==
    CASE st.kind \in {"def", "if"} -> <<Binding(st.name, TRUE, st.beh)>>
      [] st.kind = "class" -> <<Binding(N_A, TRUE, "raise")>>
      [] st.kind = "assign" -> <<Binding(st.name, FALSE, "none")>>
      [] OTHER -> <<>>

RECURSIVE ExecStmts(_, _)
\* line 254: [raised, ns] after executing the statements in order; raised
\* is "no", "Exception" or "SystemExit"
ExecStmts(body, names) ==
    IF body = <<>> THEN [raised |-> "no", ns |-> names]
    ELSE IF Head(body).kind = "raise"
    THEN [raised |-> "Exception", ns |-> names]
    ELSE IF Head(body).kind = "exit"
    THEN [raised |-> "SystemExit", ns |-> names]
    ELSE ExecStmts(Tail(body), names \o Bind(Head(body)))

RECURSIVE Lookup(_, _)
\* line 260: ns.get(fn), <<>> for None
Lookup(names, name) ==
    IF names = <<>> THEN <<>>
    ELSE IF names[Len(names)].name = name THEN <<names[Len(names)]>>
    ELSE Lookup(SubSeq(names, 1, Len(names) - 1), name)

RECURSIVE Insert(_, _)
Insert(x, sorted) ==
    IF sorted = <<>> THEN <<x>>
    ELSE IF x <= Head(sorted) THEN <<x>> \o sorted
    ELSE <<Head(sorted)>> \o Insert(x, Tail(sorted))

RECURSIVE SortAsc(_)
SortAsc(xs) == IF xs = <<>> THEN <<>> ELSE Insert(Head(xs), SortAsc(Tail(xs)))

Reverse(xs) == [i \in 1..Len(xs) |-> xs[Len(xs) + 1 - i]]

\* line 271: func(inp) for a function behaving as beh; raised is "no",
\* "Exception" or "SystemExit"
CallFunction(beh, inp) ==
    CASE beh = "asc" -> [raised |-> "no", value |-> ListVal(SortAsc(inp))]
      [] beh = "desc" ->
            [raised |-> "no", value |-> ListVal(Reverse(SortAsc(inp)))]
      [] beh = "identity" -> [raised |-> "no", value |-> ListVal(inp)]
      [] beh = "none" -> [raised |-> "no", value |-> NoneVal]
      [] beh = "raise" -> [raised |-> "Exception", value |-> NoneVal]
      [] beh = "raise_empty" ->
            IF inp = <<>> THEN [raised |-> "Exception", value |-> NoneVal]
            ELSE [raised |-> "no", value |-> ListVal(SortAsc(inp))]
      [] beh = "exit_empty" ->
            IF inp = <<>> THEN [raised |-> "SystemExit", value |-> NoneVal]
            ELSE [raised |-> "no", value |-> ListVal(SortAsc(inp))]

\* line 272, comparing by identity: a fresh list is never the expected one
TestPasses_Identity(out, expected) == FALSE

\* line 272: out == expected
TestPasses(out, expected) == out.t = "list" /\ out.v = expected

\* lines 268-277, leaving the loop at the first exception
NextTest_StopOnRaise(i, raised, n) == IF raised THEN n ELSE i + 1

\* line 268: the loop goes on to the next vector, whatever happened
NextTest(i, raised, n) == i + 1

Error(kind, inp, got) == [kind |-> kind, inp |-> inp, got |-> got]

\* line 213
InitialResult ==
    [syntax_ok |-> FALSE, tests_run |-> 0, tests_passed |-> 0,
     errors |-> <<>>, function_tested |-> <<>>]

\* lines 216-219, setting the flag before the parse
ParseFailed_FlagSet(r) ==
    [r EXCEPT !.syntax_ok = TRUE,
              !.errors = Append(@, Error("SyntaxError", <<>>, NoneVal))]

\* lines 217-219
ParseFailed(r) ==
    [r EXCEPT !.errors = Append(@, Error("SyntaxError", <<>>, NoneVal))]

VerifyInit ==
    /\ vpc = "parse"
    /\ code \in Payloads
    /\ vresult = InitialResult
    /\ func_names = <<>>
    /\ fn = <<>>
    /\ tests = <<>>
    /\ ns = <<>>
    /\ exec_count = 0
    /\ test_idx = 0
    /\ passed = 0
    /\ run_count = 0
    /\ call_log = <<>>

\* lines 214-219: ast.parse raises
ParseError ==
    /\ vpc = "parse"
    /\ ~code.parses
    /\ vresult' = ParseFailed(vresult)
    /\ vpc' = "done"
    /\ UNCHANGED <<code, func_names, fn, tests, ns, exec_count, test_idx,
                   passed, run_count, call_log>>

\* lines 214-216
ParseOk ==
    /\ vpc = "parse"
    /\ code.parses
    /\ vresult' = [vresult EXCEPT !.syntax_ok = TRUE]
    /\ vpc' = "walk"
    /\ UNCHANGED <<code, func_names, fn, tests, ns, exec_count, test_idx,
                   passed, run_count, call_log>>

\* lines 222-231: no FunctionDef in the tree
NoFunctions ==
    /\ vpc = "walk"
    /\ FuncNames(code.body) = <<>>
    /\ func_names' = <<>>
    /\ vpc' = "done"
    /\ UNCHANGED <<code, vresult, fn, tests, ns, exec_count, test_idx,
                   passed, run_count, call_log>>

\* lines 222-249: the first name found is the function under test
PickFunction ==
    /\ vpc = "walk"
    /\ FuncNames(code.body) # <<>>
    /\ func_names' = FuncNames(code.body)
    /\ fn' = <<FuncNames(code.body)[1]>>
    /\ vresult' = [vresult EXCEPT
                     !.function_tested = <<FuncNames(code.body)[1]>>]
    /\ tests' = SelectTests(FuncNames(code.body)[1])
    /\ vpc' = "exec"
    /\ UNCHANGED <<code, ns, exec_count, test_idx, passed, run_count,
                   call_log>>

\* lines 252-258: executing the payload raises
ExecRaises ==
    /\ vpc = "exec"
    /\ ExecStmts(code.body, <<>>).raised = "Exception"
    /\ ns' = ExecStmts(code.body, <<>>).ns
    /\ exec_count' = exec_count + 1
    /\ vresult' = [vresult EXCEPT
                     !.errors = Append(@, Error("RuntimeError on exec",
                                                <<>>, NoneVal))]
    /\ vpc' = "done"
    /\ UNCHANGED <<code, func_names, fn, tests, test_idx, passed,
                   run_count, call_log>>

\* lines 253-255: the payload raises SystemExit, which `except Exception`
\* does not catch: it leaves verify_code
ExecEscapes ==
    /\ vpc = "exec"
    /\ ExecStmts(code.body, <<>>).raised = "SystemExit"
    /\ ns' = ExecStmts(code.body, <<>>).ns
    /\ exec_count' = exec_count + 1
    /\ vpc' = "raised"
    /\ UNCHANGED <<code, vresult, func_names, fn, tests, test_idx, passed,
                   run_count, call_log>>

\* lines 252-254
ExecOk ==
    /\ vpc = "exec"
    /\ ExecStmts(code.body, <<>>).raised = "no"
    /\ ns' = ExecStmts(code.body, <<>>).ns
    /\ exec_count' = exec_count + 1
    /\ vpc' = "lookup"
    /\ UNCHANGED <<code, vresult, func_names, fn, tests, test_idx, passed,
                   run_count, call_log>>

\* lines 260-263: the name is unbound, or bound to something not callable
NotFound ==
    /\ vpc = "lookup"
    /\ \/ Lookup(ns, fn[1]) = <<>>
       \/ /\ Lookup(ns, fn[1]) # <<>>
          /\ ~Lookup(ns, fn[1])[1].callable
    /\ vresult' = [vresult EXCEPT
                     !.errors = Append(@, Error("not found after exec",
                                                <<>>, NoneVal))]
    /\ vpc' = "done"
    /\ UNCHANGED <<code, func_names, fn, tests, ns, exec_count, test_idx,
                   passed, run_count, call_log>>

\* lines 260-267
Found ==
    /\ vpc = "lookup"
    /\ Lookup(ns, fn[1]) # <<>>
    /\ Lookup(ns, fn[1])[1].callable
    /\ passed' = 0
    /\ run_count' = 0
    /\ test_idx' = 1
    /\ vpc' = "test"
    /\ UNCHANGED <<code, vresult, func_names, fn, tests, ns, exec_count,
                   call_log>>

\* lines 268-277: one test vector, whose call returns or raises what
\* `except Exception` catches
RunTest ==
    /\ vpc = "test"
    /\ test_idx <= Len(tests)
    /\ LET inp == tests[test_idx].inp
           expected == tests[test_idx].expected
           r == CallFunction(Lookup(ns, fn[1])[1].beh, inp)
       IN  /\ r.raised \in {"no", "Exception"}
           /\ run_count' = run_count + 1
           /\ call_log' = Append(call_log, inp)
           /\ passed' = IF r.raised = "no" /\ TestPasses(r.value, expected)
                        THEN passed + 1 ELSE passed
           /\ vresult' =
                IF r.raised = "Exception"
                THEN [vresult EXCEPT
                        !.errors = Append(@, Error("Exception when testing",
                                                   inp, NoneVal))]
                ELSE IF TestPasses(r.value, expected) THEN vresult
                ELSE [vresult EXCEPT
                        !.errors = Append(@, Error("Test failed",
                                                   inp, r.value))]
           /\ test_idx' = NextTest(test_idx, r.raised = "Exception",
                                   Len(tests) + 1)
    /\ UNCHANGED <<vpc, code, func_names, fn, tests, ns, exec_count>>

\* lines 268-271 and 276: the call raises SystemExit, which is no Exception
\* and leaves verify_code
TestEscapes ==
    /\ vpc = "test"
    /\ test_idx <= Len(tests)
    /\ CallFunction(Lookup(ns, fn[1])[1].beh, tests[test_idx].inp).raised
          = "SystemExit"
    /\ run_count' = run_count + 1
    /\ call_log' = Append(call_log, tests[test_idx].inp)
    /\ vpc' = "raised"
    /\ UNCHANGED <<code, vresult, func_names, fn, tests, ns, exec_count,
                   test_idx, passed>>

\* lines 279-281
Finish ==
    /\ vpc = "test"
    /\ test_idx > Len(tests)
    /\ vresult' = [vresult EXCEPT !.tests_run = run_count,
                                  !.tests_passed = passed]
    /\ vpc' = "done"
    /\ UNCHANGED <<code, func_names, fn, tests, ns, exec_count, test_idx,
                   passed, run_count, call_log>>

\* line 213, with the result dict kept from one call to the next
FreshResult_Kept(prev) == prev

\* line 213: every call builds its own result dict
FreshResult(prev) == InitialResult

\* the caller verifies one payload, twice in a row
CallerInit ==
    /\ call_no = 1
    /\ first_result = <<>>

\* lines 198-213, 252: verify_code is called again on the same payload,
\* after the first call returned or raised; its locals, its namespace and
\* the logs of this model start afresh
VerifyAgain ==
    /\ call_no = 1
    /\ vpc \in {"done", "raised"}
    /\ call_no' = 2
    /\ first_result' = IF vpc = "done" THEN <<vresult>> ELSE <<>>
    /\ vresult' = FreshResult(vresult)
    /\ vpc' = "parse"
    /\ func_names' = <<>>
    /\ fn' = <<>>
    /\ tests' = <<>>
    /\ ns' = <<>>
    /\ exec_count' = 0
    /\ test_idx' = 0
    /\ passed' = 0
    /\ run_count' = 0
    /\ call_log' = <<>>
    /\ UNCHANGED code

\* nobody is calling verify_code
CallerIdle ==
    /\ call_no = 0
    /\ first_result = <<>>

\* verify_code is not being executed
VerifyIdle ==
    /\ vpc = "idle"
    /\ code = <<>>
    /\ vresult = <<>>
    /\ func_names = <<>>
    /\ fn = <<>>
    /\ tests = <<>>
    /\ ns = <<>>
    /\ exec_count = 0
    /\ test_idx = 0
    /\ passed = 0
    /\ run_count = 0
    /\ call_log = <<>>

(***************************************************************************)
(* ReflectionAgent.CODE_BLOCK_RE and ReflectionAgent.extract_code_blocks   *)
(*                                                                         *)
(* The pattern is ```(?:python)?\s*(.*?)``` with DOTALL and IGNORECASE.    *)
(* From an opening fence the optional tag and the white space are taken    *)
(* greedily and the group lazily, up to the first closing fence; giving    *)
(* back tag or white space never makes a failed match succeed, since       *)
(* neither holds a backtick.                                               *)
(***************************************************************************)
T_python == <<"p", "y", "t", "h", "o", "n">>

\* a fence, three grave accents, starts at i
IsFenceAt(t, i) ==
    /\ i >= 1
    /\ i + 2 <= Len(t)
    /\ t[i] = Backtick /\ t[i + 1] = Backtick /\ t[i + 2] = Backtick

\* (?:python)? at q, matching the exact case only
TagEnd_CaseSensitive(t, q) ==
    IF q + 5 <= Len(t) /\ SubSeq(t, q, q + 5) = T_python
    THEN q + 6 ELSE q

\* IGNORECASE: c matches the pattern's lower-case letter p
MatchesIgnoringCase(c, p) ==
    c = p \/ (c \in DOMAIN UpperToLower /\ UpperToLower[c] = p)

\* (?:python)? at q with IGNORECASE: the position after it
TagEnd(t, q) ==
    IF /\ q + 5 <= Len(t)
       /\ \A i \in 1..6 : MatchesIgnoringCase(t[q + i - 1], T_python[i])
    THEN q + 6 ELSE q

RECURSIVE SkipSpace(_, _)
\* \s* at q: the position after it
SkipSpace(t, q) ==
    IF q <= Len(t) /\ t[q] \in Whitespace THEN SkipSpace(t, q + 1) ELSE q

RECURSIVE FindFence(_, _)
\* (.*?)``` from q: where the closing fence starts, 0 if there is none
FindFence(t, q) ==
    IF q + 2 > Len(t) THEN 0
    ELSE IF IsFenceAt(t, q) THEN q
    ELSE FindFence(t, q + 1)

RECURSIVE FindAll(_, _)
\* CODE_BLOCK_RE.findall(text), scanning from i
FindAll(t, i) ==
    IF i > Len(t) THEN <<>>
    ELSE IF ~IsFenceAt(t, i) THEN FindAll(t, i + 1)
    ELSE LET q == SkipSpace(t, TagEnd(t, i + 3))
             k == FindFence(t, q)
         IN  IF k = 0 THEN FindAll(t, i + 1)
             ELSE <<SubSeq(t, q, k - 1)>> \o FindAll(t, k + 3)

\* lines 192-196
extract_code_blocks(text) ==
    [k \in 1..Len(FindAll(text, 1)) |-> strip(FindAll(text, 1)[k])]

\* the pieces the texts given to extract_code_blocks are made of
Tokens ==
    { <<Backtick, Backtick, Backtick>>, <<Backtick>>,
      <<"P", "y", "t", "h", "o", "N">>, <<"j", "s">>, <<"\n">>, <<"\f">>,
      <<"x">> }

RECURSIVE TokenTextsOfLen(_)
TokenTextsOfLen(n) ==
    IF n = 0 THEN {<<>>}
    ELSE {s \o tok : s \in TokenTextsOfLen(n - 1), tok \in Tokens}

T_TwoBlocks ==
    <<"a", " ", Backtick, Backtick, Backtick, "p", "y", "t", "h", "o", "n", "\n", "x",
      "\n", "\n", "y", " ", "\n", Backtick, Backtick, Backtick, " ", "b", Backtick, Backtick, Backtick,
      " ", "z", "\t", Backtick, Backtick, Backtick>>

T_NoFence == <<"a", " ", Backtick, Backtick, "x", Backtick, Backtick, " ", "b">>

ExtractInit ==
    /\ arg_text \in UNION {TokenTextsOfLen(n) : n \in 0..MaxTokens}
                     \cup {T_TwoBlocks, T_NoFence}
    /\ ret_blocks = <<>>

CallExtract ==
    /\ ret_blocks = <<>>
    /\ ret_blocks' = <<extract_code_blocks(arg_text)>>
    /\ UNCHANGED arg_text

ExtractIdle ==
    /\ arg_text = <<>>
    /\ ret_blocks = <<>>

(***************************************************************************)
(* ReflectionAgent.verify_generation_text                                  *)
(*                                                                         *)
(* A generation text is made of characters and of source statements, each  *)
(* statement standing for its characters as one element of the text.  A    *)
(* statement starts and ends with a character that is neither white space  *)
(* nor a grave accent, and none starts with the word python.               *)
(***************************************************************************)
S_sorted == "def merge_sort(a): return sorted(a)"
S_reversed == "def merge_sort(a): return sorted(a, reverse=True)"
S_other == "def add_numbers(a): return list(a)"
S_exiting ==
    "def merge_sort(a):\n    if not a: raise SystemExit()\n    return sorted(a)"
S_class == "class A:\n    def merge_sort(self, a): return sorted(a)"
S_raise == "raise ValueError()"
S_exit == "raise SystemExit()"
S_bad == "def f(:"

\* what ast.parse makes of each statement that parses
Statement ==
    (S_sorted :> Stmt("def", N_merge_sort, "asc"))
    @@ (S_reversed :> Stmt("def", N_merge_sort, "desc"))
    @@ (S_exiting :> Stmt("def", N_merge_sort, "exit_empty"))
    @@ (S_other :> Stmt("def", N_add_numbers, "identity"))
    @@ (S_class :> Stmt("class", N_merge_sort, "asc"))
    @@ (S_raise :> Stmt("raise", <<>>, "none"))
    @@ (S_exit :> Stmt("exit", <<>>, "none"))

\* the characters that end a line of source text
SourceBreaks == {"\n", "\r"}

RECURSIVE SourceLines(_)
\* the lines of a source text
SourceLines(s) ==
    IF \A i \in 1..Len(s) : s[i] \notin SourceBreaks THEN <<s>>
    ELSE LET k == CHOOSE i \in 1..Len(s) :
                    /\ s[i] \in SourceBreaks
                    /\ \A j \in 1..(i - 1) : s[j] \notin SourceBreaks
         IN  <<SubSeq(s, 1, k - 1)>> \o SourceLines(SubSeq(s, k + 1, Len(s)))

\* the blanks of a source line
SourceBlanks == {" ", "\t"}

\* names that are no keyword and that neither the namespace nor builtins
\* binds: evaluating one raises NameError
UnboundNames == {<<"x">>, <<"j", "s">>}

\* l without the blanks at its end
WithoutTrailingBlanks(l) ==
    LET I == {i \in 1..Len(l) : l[i] \notin SourceBlanks}
    IN  IF I = {} THEN <<>>
        ELSE SubSeq(l, 1, CHOOSE i \in I : \A j \in I : j <= i)

\* what ast.parse makes of one line that starts at the margin: "blank",
\* "bad" for the statement that is a syntax error, <<the statement>> for a
\* line holding one statement or one unbound name, and "unknown" for any
\* other line, of which the model does not say how it parses
ParseLine(l) ==
    LET r == WithoutTrailingBlanks(l)
    IN  IF r = <<>> THEN "blank"
        ELSE IF Len(r) = 1 /\ r[1] \in DOMAIN Statement
        THEN <<Statement[r[1]]>>
        ELSE IF r = <<S_bad>> THEN "bad"
        ELSE IF r \in UnboundNames THEN <<Stmt("raise", <<>>, "none")>>
        ELSE "unknown"

RECURSIVE ParseLines(_)
\* the statements of lines that are all blank or a statement
ParseLines(ls) ==
    IF ls = <<>> THEN <<>>
    ELSE (IF ParseLine(Head(ls)) = "blank" THEN <<>> ELSE ParseLine(Head(ls)))
         \o ParseLines(Tail(ls))

\* line 215: the payloads ast.parse(code) may give for the source text p;
\* one payload when every line is known, any payload otherwise
ParsePayload(p) ==
    LET ls == SourceLines(p)
    IN  IF \E i \in 1..Len(ls) : ParseLine(ls[i]) = "unknown" THEN Payloads
        ELSE IF \E i \in 1..Len(ls) : ParseLine(ls[i]) = "bad"
        THEN {[parses |-> FALSE, body |-> <<>>]}
        ELSE {[parses |-> TRUE, body |-> ParseLines(ls)]}

\* line 291, taking the last block
FirstCode_Last(cs) == cs[Len(cs)]

\* line 291: codes[0]
FirstCode(cs) == cs[1]

\* lines 287-290
NoCodeResult ==
    [found_code |-> FALSE,
     verification |-> [syntax_ok |-> FALSE,
                       errors |-> <<"No code block found">>]]

\* line 292
CodeResult(verification) ==
    [found_code |-> TRUE, verification |-> verification]

Fence == <<Backtick, Backtick, Backtick>>

RECURSIVE JoinLines(_)
JoinLines(items) ==
    IF items = <<>> THEN <<>>
    ELSE IF Len(items) = 1 THEN <<items[1]>>
    ELSE <<items[1], "\n">> \o JoinLines(Tail(items))

RECURSIVE ItemsOfLen(_)
ItemsOfLen(n) ==
    IF n = 0 THEN {<<>>}
    ELSE {Append(s, it) : s \in ItemsOfLen(n - 1),
                          it \in DOMAIN Statement \cup {S_bad, "x"}}

\* the sources a block may hold: up to MaxStmts lines
Sources == {JoinLines(s) : s \in UNION {ItemsOfLen(n) : n \in 0..MaxStmts}}

Tags == {<<>>, T_python, <<"j", "s">>}

Block(tag, src) == Fence \o tag \o <<"\n">> \o src \o <<"\n">> \o Fence

\* the texts given to verify_generation_text: prose, an unclosed fence,
\* one block bare or inside prose, and two blocks
RECURSIVE WithCarriageReturns(_)
\* s with every line feed preceded by a carriage return
WithCarriageReturns(s) ==
    IF s = <<>> THEN <<>>
    ELSE (IF Head(s) = "\n" THEN <<"\r", "\n">> ELSE <<Head(s)>>)
         \o WithCarriageReturns(Tail(s))

T_pass == <<"p", "a", "s", "s">>

Generations ==
    {<<>>, <<"x", " ", "x">>, Block(<<>>, T_pass)}
    \cup {Fence \o <<"\f">> \o WithCarriageReturns(<<"\n">> \o src \o <<"\n">>)
               \o <<"\f">> \o Fence : src \in Sources}
    \cup {Fence \o src : src \in Sources}
    \cup {Block(tag, src) : tag \in Tags, src \in Sources}
    \cup {<<"x", "\n">> \o Block(T_python, src) \o <<"\n", "x">> :
            src \in Sources}
    \cup {Block(T_python, src) \o <<"x", " ">> \o Block(<<>>, other) :
            src \in Sources, other \in {<<>>, <<S_bad>>, <<S_sorted>>}}

GenInit ==
    /\ gpc = "extract"
    /\ generation \in Generations
    /\ codes = <<>>
    /\ gresult = <<>>

\* lines 285-290: no block was found
NoCodeBlock ==
    /\ gpc = "extract"
    /\ extract_code_blocks(generation) = <<>>
    /\ gpc' = "done"
    /\ gresult' = <<NoCodeResult>>
    /\ UNCHANGED <<generation, codes>>
    /\ UNCHANGED verVars

\* lines 285, 286 and 291 up to line 213 of verify_code
VerifyFirst ==
    /\ gpc = "extract"
    /\ extract_code_blocks(generation) # <<>>
    /\ codes' = extract_code_blocks(generation)
    /\ gpc' = "verify"
    /\ code' \in ParsePayload(FirstCode(codes'))
    /\ vpc' = "parse"
    /\ vresult' = InitialResult
    /\ UNCHANGED <<generation, gresult>>
    /\ UNCHANGED <<func_names, fn, tests, ns, exec_count, test_idx, passed,
                   run_count, call_log>>

\* lines 291-292: verify_code returned
ReturnVerification ==
    /\ gpc = "verify"
    /\ vpc = "done"
    /\ gpc' = "done"
    /\ gresult' = <<CodeResult(vresult)>>
    /\ UNCHANGED <<generation, codes>>
    /\ UNCHANGED verVars

\* line 291: what verify_code does not catch leaves verify_generation_text
GenEscapes ==
    /\ gpc = "verify"
    /\ vpc = "raised"
    /\ gpc' = "raised"
    /\ UNCHANGED <<generation, codes, gresult>>
    /\ UNCHANGED verVars

\* verify_generation_text is not being executed
GenIdle ==
    /\ gpc = "idle"
    /\ generation = <<>>
    /\ codes = <<>>
    /\ gresult = <<>>

(***************************************************************************)
(* Specifications                                                          *)
(***************************************************************************)
Init ==
    RunInit /\ StopIdle /\ VerifyIdle /\ CallerIdle /\ ExtractIdle /\ GenIdle

Next ==
    \/ Generate /\ UNCHANGED <<stopVars, verVars, callerVars, extractVars, genVars>>
    \/ Reflect /\ UNCHANGED <<stopVars, verVars, callerVars, extractVars, genVars>>
    \/ Record /\ UNCHANGED <<stopVars, verVars, callerVars, extractVars, genVars>>
    \/ Break /\ UNCHANGED <<stopVars, verVars, callerVars, extractVars, genVars>>
    \/ Raise /\ UNCHANGED <<stopVars, verVars, callerVars, extractVars, genVars>>
    \/ Continue /\ UNCHANGED <<stopVars, verVars, callerVars, extractVars, genVars>>
    \/ Sleep /\ UNCHANGED <<stopVars, verVars, callerVars, extractVars, genVars>>
    \/ Exhausted /\ UNCHANGED <<stopVars, verVars, callerVars, extractVars, genVars>>
    \/ Return /\ UNCHANGED <<stopVars, verVars, callerVars, extractVars, genVars>>

Spec == Init /\ [][Next]_vars

InitStop ==
    RunIdle /\ StopInit /\ VerifyIdle /\ CallerIdle /\ ExtractIdle /\ GenIdle

NextStop == CallShouldStop /\ UNCHANGED <<runVars, verVars, callerVars, extractVars, genVars>>

SpecStop == InitStop /\ [][NextStop]_vars

InitVerify ==
    RunIdle /\ StopIdle /\ VerifyInit /\ CallerInit /\ ExtractIdle /\ GenIdle

NextVerify ==
    \/ ParseError /\ UNCHANGED <<runVars, stopVars, callerVars, extractVars,
                                      genVars>>
    \/ ParseOk /\ UNCHANGED <<runVars, stopVars, callerVars, extractVars,
                                      genVars>>
    \/ NoFunctions /\ UNCHANGED <<runVars, stopVars, callerVars, extractVars,
                                      genVars>>
    \/ PickFunction /\ UNCHANGED <<runVars, stopVars, callerVars, extractVars,
                                      genVars>>
    \/ ExecRaises /\ UNCHANGED <<runVars, stopVars, callerVars, extractVars,
                                      genVars>>
    \/ ExecEscapes /\ UNCHANGED <<runVars, stopVars, callerVars, extractVars,
                                      genVars>>
    \/ ExecOk /\ UNCHANGED <<runVars, stopVars, callerVars, extractVars,
                                      genVars>>
    \/ NotFound /\ UNCHANGED <<runVars, stopVars, callerVars, extractVars,
                                      genVars>>
    \/ Found /\ UNCHANGED <<runVars, stopVars, callerVars, extractVars,
                                      genVars>>
    \/ RunTest /\ UNCHANGED <<runVars, stopVars, callerVars, extractVars,
                                      genVars>>
    \/ TestEscapes /\ UNCHANGED <<runVars, stopVars, callerVars, extractVars,
                                      genVars>>
    \/ Finish /\ UNCHANGED <<runVars, stopVars, callerVars, extractVars,
                                      genVars>>
    \/ VerifyAgain /\ UNCHANGED <<runVars, stopVars, extractVars, genVars>>

SpecVerify == InitVerify /\ [][NextVerify]_vars

(***************************************************************************)
(* Properties of run                                                       *)
(***************************************************************************)
Approving(r) == _should_stop(r.critique_text) = "True"

StepsInOrder(rs, n) ==
    /\ Len(rs) <= n
    /\ \A i \in 1..Len(rs) : rs[i].step = i

\* C1: for a step budget N >= 1 run records at most N rounds, in every
\* state and in the returned result, and the step fields of the rounds are
\* 1, 2, ..., k in list order.
C1_StepsSequential ==
    n_steps >= 1 =>
        /\ StepsInOrder(rounds, n_steps)
        /\ result # <<>> => StepsInOrder(result[1].rounds, n_steps)

\* a run that used its whole budget of at least two steps
C1_Witness ==
    /\ result # <<>>
    /\ n_steps >= 2
    /\ Len(result[1].rounds) = n_steps

\* C2: once a round is recorded, final_assistant is the generation_text
\* of the last round of rounds; the returned result has the same property,
\* when the budget is exhausted and when an approving critique ends the run.
C2_FinalIsLastGeneration ==
    /\ rounds # <<>> =>
          final_assistant = rounds[Len(rounds)].generation_text
    /\ result # <<>> /\ result[1].rounds # <<>> =>
          result[1].final_assistant =
              result[1].rounds[Len(result[1].rounds)].generation_text

\* a run stopped early by an approving critique in its second round, whose
\* two generations differ
C2_Witness ==
    /\ result # <<>>
    /\ stop_on_ok
    /\ Len(result[1].rounds) = 2
    /\ n_steps > 2
    /\ Approving(result[1].rounds[2])
    /\ result[1].rounds[1].generation_text
          # result[1].rounds[2].generation_text

\* C3: the number of rounds of the returned result is the index of the
\* first approving round when stop_on_ok is set and there is one, and the
\* step budget otherwise (no round for a budget below 1); once an
\* approving round is recorded with stop_on_ok set it stays the last round
\* and no client call follows it; with stop_on_ok unset an approving
\* critique does not shorten the run.
C3_RoundCount ==
    /\ \A i \in 1..Len(rounds) :
          (stop_on_ok /\ Approving(rounds[i])) =>
              /\ i = Len(rounds)
              /\ Len(calls) = 2 * i
              /\ pc \in {"check", "return", "done"}
    /\ result # <<>> =>
          LET rs == result[1].rounds
              k == Len(rs)
          IN  IF stop_on_ok /\ \E i \in 1..k : Approving(rs[i])
              THEN /\ Approving(rs[k])
                   /\ \A i \in 1..(k - 1) : ~Approving(rs[i])
                   /\ k <= n_steps
              ELSE k = (IF n_steps < 0 THEN 0 ELSE n_steps)

\* a run with budget 3 that returned after an approval in round 2
C3_Witness ==
    /\ result # <<>>
    /\ stop_on_ok
    /\ n_steps = 3
    /\ Len(result[1].rounds) = 2
    /\ Approving(result[1].rounds[2])
    /\ Len(calls) = 4

RECURSIVE RoundMessages(_)
RoundMessages(rs) ==
    IF rs = <<>> THEN <<>>
    ELSE RoundMessages(SubSeq(rs, 1, Len(rs) - 1))
         \o <<Message("assistant", rs[Len(rs)].generation_text),
              Message("user", rs[Len(rs)].critique_text)>>

IsPrefix(a, b) == Len(a) <= Len(b) /\ SubSeq(b, 1, Len(a)) = a

C5_Shape ==
    /\ pc \in {"loop", "check", "return", "done", "raised"} =>
          generation_history = InitialHistory \o RoundMessages(rounds)
    /\ pc = "reflect" =>
          generation_history =
              InitialHistory \o RoundMessages(rounds)
              \o <<Message("assistant", generation_text)>>
    /\ pc = "record" =>
          generation_history =
              InitialHistory \o RoundMessages(rounds)
              \o <<Message("assistant", generation_text),
                   Message("user", critique_text)>>
    /\ result # <<>> =>
          /\ result[1].generation_history =
                InitialHistory \o RoundMessages(result[1].rounds)
          /\ Len(result[1].generation_history) =
                2 + 2 * Len(result[1].rounds)

C5_AppendOnly == IsPrefix(generation_history, generation_history')

\* C5: the generation transcript starts as [system prompt, user task];
\* after every completed round it is those two messages followed, round by
\* round, by assistant(generation) and user(critique); every step leaves
\* the messages already there in place; the returned transcript has
\* 2 + 2 * (number of rounds) messages.
C5_Transcript == [](C5_Shape) /\ [][C5_AppendOnly]_vars

\* a returned transcript of three rounds
C5_Witness ==
    /\ result # <<>>
    /\ Len(result[1].rounds) = 3
    /\ Len(result[1].generation_history) = 8

\* C6: whatever the shape of the replies, run does not abort: no exception
\* leaves it.
C6_RunNeverAborts == pc # "raised"

(***************************************************************************)
(* Properties of _should_stop                                              *)
(***************************************************************************)
\* the approval marker, in any case, somewhere in c
HasMarker(c) ==
    \E i \in 1..(Len(c) - 3) :
        /\ c[i] = "<"
        /\ c[i + 1] \in {"o", "O"}
        /\ c[i + 2] \in {"k", "K", KELVIN}
        /\ c[i + 3] = ">"

\* c[a..b] is "ok", in any case, with only white space around it
IsOkBetween(c, a, b) ==
    \E i \in a..(b - 1) :
        /\ c[i] \in {"o", "O"}
        /\ c[i + 1] \in {"k", "K", KELVIN}
        /\ \A j \in a..b : j \notin {i, i + 1} => c[j] \in Whitespace

\* c[a..b] is a line of c: a maximal stretch without a line break
IsLine(c, a, b) ==
    /\ a <= b
    /\ a = 1 \/ c[a - 1] \in LineBreaks
    /\ b = Len(c) \/ c[b + 1] \in LineBreaks
    /\ \A j \in a..b : c[j] \notin LineBreaks

SignalsApproval(c) ==
    /\ c # <<>>
    /\ \/ HasMarker(c)
       \/ IsOkBetween(c, 1, Len(c))
       \/ \E a \in 1..Len(c) : \E b \in a..Len(c) :
              IsLine(c, a, b) /\ IsOkBetween(c, a, b)

T_LooksFine ==
    <<"L", "o", "o", "k", "s", " ", "f", "i", "n", "e", ",", " ", "b",
      "u", "t", " ", "n", "e", "e", "d", "s", " ", "w", "o", "r", "k">>

T_MultiLine == <<"b", "a", "d", "\n", " ", "o", "k", " ", "\n", "x">>

\* C4: _should_stop returns True exactly for a non-empty text that holds
\* the marker "<ok>" in any case, or is "ok" once trimmed and lower-cased,
\* or has a line that is; "<OK>", "ok", "  OK  " and the multi-line text
\* approve, "Looks fine, but needs work" and the empty text do not.
C4_ShouldStopIff ==
    (ret_stop # <<>> /\ arg_critique.t = "str") =>
        /\ ret_stop[1] \in {"True", "False"}
        /\ ret_stop[1] = "True" <=> SignalsApproval(arg_critique.v)
        /\ arg_critique.v \in
              { <<"<", "O", "K", ">">>, <<"o", "k">>,
                <<" ", " ", "O", "K", " ", " ">>, T_MultiLine }
              => ret_stop[1] = "True"
        /\ arg_critique.v \in {T_LooksFine, <<>>} => ret_stop[1] = "False"

\* the multi-line critique was judged and approved
C4_Witness ==
    /\ ret_stop = <<"True">>
    /\ arg_critique = Str(T_MultiLine)

(***************************************************************************)
(* Properties of verify_code                                               *)
(***************************************************************************)
\* the first function definition directly under the module, in source order
FirstDef(body) ==
    LET I == {i \in 1..Len(body) : body[i].kind = "def"}
    IN  IF I = {} THEN <<>>
        ELSE <<body[CHOOSE i \in I : \A j \in I : i <= j].name>>

NameHasSort(n) ==
    \E i \in 1..(Len(n) - 3) :
        /\ n[i] \in {"s", "S"}
        /\ n[i + 1] \in {"o", "O"}
        /\ n[i + 2] \in {"r", "R"}
        /\ n[i + 3] \in {"t", "T"}

\* the first statement of body that raises is at i
FirstRaiseAt(body, i) ==
    /\ body[i].kind \in {"raise", "exit"}
    /\ \A j \in 1..(i - 1) : body[j].kind \notin {"raise", "exit"}

NoRaise(body) == \A i \in 1..Len(body) : ~FirstRaiseAt(body, i)

\* the last statement of body that binds name
LastBinder(body, name) ==
    LET I == {i \in 1..Len(body) :
                body[i].name = name /\ body[i].kind \in {"def", "if", "assign"}}
    IN  body[CHOOSE i \in I : \A j \in I : j <= i]

\* the payload parses, runs without raising and leaves its first function
\* callable
TestsReached(c) ==
    /\ c.parses
    /\ FirstDef(c.body) # <<>>
    /\ NoRaise(c.body)
    /\ LastBinder(c.body, FirstDef(c.body)[1]).kind \in {"def", "if"}

TestedBeh(c) == LastBinder(c.body, FirstDef(c.body)[1]).beh

\* the four vectors of the specification
Vectors == << <<3, 1, 2>>, <<>>, <<5, 4, 3, 2, 1>>, <<1>> >>

\* the vectors a function behaving as beh gets right
Good(beh) ==
    {i \in 1..4 :
        /\ CallFunction(beh, Vectors[i]).raised = "no"
        /\ CallFunction(beh, Vectors[i]).value = ListVal(SortAsc(Vectors[i]))}

\* C7: for a payload that does not parse, verify_code returns
\* syntax_ok=false, tests_run=0, tests_passed=0, no function_tested and one
\* error, the parse error; the payload is never executed and no function
\* of it is called.
C7_ParseFailure ==
    (vpc # "idle" /\ ~code.parses) =>
        /\ exec_count = 0
        /\ call_log = <<>>
        /\ vpc = "done" =>
              vresult = [syntax_ok |-> FALSE, tests_run |-> 0,
                         tests_passed |-> 0,
                         errors |-> <<Error("SyntaxError", <<>>, NoneVal)>>,
                         function_tested |-> <<>>]

\* verify_code has returned for a payload that does not parse
C7_Witness ==
    /\ vpc = "done"
    /\ ~code.parses
    /\ Len(vresult.errors) = 1

IsDescendingMergeSort ==
    /\ vpc = "done"
    /\ TestsReached(code)
    /\ FirstDef(code.body)[1] = N_merge_sort
    /\ TestedBeh(code) = "desc"

\* C8 as stated: a merge_sort returning descending order gives
\* syntax_ok=true, tests_run=4, tests_passed=0 and 4 mismatch errors.
C8_DescendingFailsAll ==
    IsDescendingMergeSort =>
        /\ vresult.syntax_ok
        /\ vresult.tests_run = 4
        /\ vresult.tests_passed = 0
        /\ Len(vresult.errors) = 4

\* C8 amended: a merge_sort returning descending order gives
\* syntax_ok=true, tests_run=4, tests_passed=2 (the empty and the
\* one-element vector are their own descending order) and 2 mismatch
\* errors, for [3, 1, 2] and [5, 4, 3, 2, 1].
C8_DescendingFailsTwo ==
    IsDescendingMergeSort =>
        /\ vresult.syntax_ok
        /\ vresult.tests_run = 4
        /\ vresult.tests_passed = 2
        /\ vresult.errors =
              << Error("Test failed", <<3, 1, 2>>, ListVal(<<3, 2, 1>>)),
                 Error("Test failed", <<5, 4, 3, 2, 1>>,
                       ListVal(<<5, 4, 3, 2, 1>>)) >>

\* verify_code has returned for the payload that is one descending
\* merge_sort
C8_Witness ==
    /\ IsDescendingMergeSort
    /\ code.body = <<Stmt("def", N_merge_sort, "desc")>>

\* verify_code has ended, by returning or by an exception, for a payload
\* whose first function has "sort" in its name and is callable after the
\* payload ran
SortFunctionTested ==
    /\ vpc \in {"done", "raised"}
    /\ TestsReached(code)
    /\ NameHasSort(FirstDef(code.body)[1])

\* C9: when the first declared function has "sort" in its name, in any
\* case, and is callable after the payload ran, all four vectors are run in
\* order whatever the earlier outcomes, an exception in one vector not
\* stopping the others: verify_code returns tests_run=4, tests_passed the
\* number of vectors sorted ascending, and one error for each other
\* vector, mismatch or exception, in vector order; an ascending sort
\* passes all four with no error.
C9_RunsAllVectors ==
    SortFunctionTested =>
        LET good == Good(TestedBeh(code))
            bad == {i \in 1..4 : i \notin good}
        IN  /\ vpc = "done"
            /\ vresult.syntax_ok
            /\ vresult.function_tested = FirstDef(code.body)
            /\ vresult.tests_run = 4
            /\ call_log = Vectors
            /\ vresult.tests_passed = Cardinality(good)
            /\ Len(vresult.errors) = Cardinality(bad)
            /\ \A k \in 1..Len(vresult.errors) :
                  \E i \in bad :
                      /\ vresult.errors[k].inp = Vectors[i]
                      /\ Cardinality({j \in bad : j < i}) = k - 1
                      /\ vresult.errors[k].kind =
                            (IF CallFunction(TestedBeh(code),
                                             Vectors[i]).raised = "no"
                             THEN "Test failed"
                             ELSE "Exception when testing")
            /\ TestedBeh(code) = "asc" =>
                  vresult.tests_passed = 4 /\ vresult.errors = <<>>

OtherFunctionFirst ==
    /\ vpc = "done"
    /\ code.parses
    /\ FirstDef(code.body) # <<>>
    /\ ~NameHasSort(FirstDef(code.body)[1])

\* C10 as stated: every payload that parses and whose first declared
\* function has no "sort" in its name gives syntax_ok=true, tests_run=0,
\* tests_passed=0 and no error.
C10_NoErrors ==
    OtherFunctionFirst =>
        /\ vresult.syntax_ok
        /\ vresult.tests_run = 0
        /\ vresult.tests_passed = 0
        /\ vresult.errors = <<>>

\* C10 amended: whenever verify_code returns for such a payload, the
\* result has syntax_ok=true, tests_run=0, tests_passed=0 and the function
\* was not called; the payload was still executed once, and the error list
\* is empty when that execution did not raise and left the function
\* callable, and holds one error (the execution error, or function not
\* found) otherwise.
C10_SyntaxOnlyUnlessExecFails ==
    OtherFunctionFirst =>
        /\ vresult.syntax_ok
        /\ vresult.tests_run = 0
        /\ vresult.tests_passed = 0
        /\ call_log = <<>>
        /\ exec_count = 1
        /\ vresult.function_tested = FirstDef(code.body)
        /\ IF TestsReached(code) THEN vresult.errors = <<>>
           ELSE IF ~NoRaise(code.body)
           THEN vresult.errors =
                    <<Error("RuntimeError on exec", <<>>, NoneVal)>>
           ELSE vresult.errors =
                    <<Error("not found after exec", <<>>, NoneVal)>>

\* verify_code has returned without error for a payload that is one
\* function add_numbers
C10_Witness ==
    /\ OtherFunctionFirst
    /\ code.body = <<Stmt("def", N_add_numbers, "asc")>>
    /\ vresult.errors = <<>>
    /\ exec_count = 1

(***************************************************************************)
(* Properties of the client calls and pauses of run                        *)
(***************************************************************************)
\* m is one of the messages msgs
HasMessage(msgs, m) == \E i \in 1..Len(msgs) : msgs[i] = m

\* C14: the reflection call of every round is sent exactly the two messages
\* [system(reflection_system_prompt), user(generation text of the round)],
\* so neither the user task nor an earlier generation or critique; the
\* generation call of round k is sent the generation transcript, which
\* holds the critiques of rounds 1..k-1 as user messages.
C14_CallTranscripts ==
    \A k \in 1..Len(rounds) :
        /\ calls[2 * k].kind = "reflection"
        /\ Len(calls[2 * k].messages) = 2
        /\ calls[2 * k].messages =
              << Message("system", reflection_system_prompt),
                 Message("user", rounds[k].generation_text) >>
        /\ ~HasMessage(calls[2 * k].messages, Message("user", user_msg))
        /\ \A j \in 1..(k - 1) :
              ~HasMessage(calls[2 * k].messages,
                          Message("user", rounds[j].critique_text))
        /\ calls[2 * k - 1].kind = "generation"
        /\ calls[2 * k - 1].messages =
              InitialHistory \o RoundMessages(SubSeq(rounds, 1, k - 1))
        /\ \A j \in 1..(k - 1) :
              HasMessage(calls[2 * k - 1].messages,
                         Message("user", rounds[j].critique_text))

\* three rounds were recorded, the third generation call having seen two
\* critiques
C14_Witness ==
    /\ Len(rounds) = 3
    /\ Len(calls) = 6
    /\ Len(calls[5].messages) = 6
    /\ rounds[1].critique_text # rounds[2].critique_text

\* C15: every pause is followed by another generation call: the returned
\* run has made no pause after its last step, whether it ended on approval
\* or on the step budget.
C15_NoPauseAfterLastStep ==
    result # <<>> =>
        \A i \in 1..Len(sleeps) : sleeps[i] < Len(result[1].rounds)

\* C19: the client calls alternate generation, reflection, ..., starting
\* with a generation, two per round; a returned run of at least one round
\* made a reflection call last, and its transcript ends with the user-role
\* message of the last critique, also when the step budget ended it.
C19_CallsAlternate ==
    /\ \A i \in 1..Len(calls) :
          calls[i].kind =
              (IF i % 2 = 1 THEN "generation" ELSE "reflection")
    /\ Len(calls) \in {2 * Len(rounds), 2 * Len(rounds) + 1,
                       2 * Len(rounds) + 2}
    /\ pc \in {"loop", "check", "return", "done", "raised"} =>
          Len(calls) = 2 * Len(rounds)
    /\ (result # <<>> /\ result[1].rounds # <<>>) =>
          LET h == result[1].generation_history
              rs == result[1].rounds
          IN  /\ Len(calls) = 2 * Len(rs)
              /\ calls[Len(calls)].kind = "reflection"
              /\ h[Len(h)] = Message("user", rs[Len(rs)].critique_text)

\* a run that used its whole budget of 2 without approval: its last
\* critique was fed to no generation
C19_Witness ==
    /\ result # <<>>
    /\ n_steps = 2
    /\ Len(result[1].rounds) = 2
    /\ ~Approving(result[1].rounds[2])
    /\ Len(calls) = 4

\* C20: with n_steps <= 0 run makes no client call and returns no round,
\* the empty string as final_assistant and the two initial messages as
\* transcript.
C20_NoSteps ==
    n_steps <= 0 =>
        /\ calls = <<>>
        /\ rounds = <<>>
        /\ result # <<>> =>
              result[1] = [final_assistant |-> Str(<<>>),
                           rounds |-> <<>>,
                           generation_history |->
                              << Message("system", generation_system_prompt),
                                 Message("user", user_msg) >>]

\* run has returned for a negative step budget
C20_Witness ==
    /\ result # <<>>
    /\ n_steps < 0
    /\ calls = <<>>

(***************************************************************************)
(* Further properties of verify_code                                       *)
(***************************************************************************)
SyntaxOnlyResult ==
    [syntax_ok |-> TRUE, tests_run |-> 0, tests_passed |-> 0,
     errors |-> <<>>, function_tested |-> <<>>]

\* C16: a payload that parses and has no function definition directly
\* under the module (none at all, or only methods of a class or functions
\* inside another statement) gets the syntax-only result, with no function
\* under test and no error and without being executed; when there are
\* such definitions the function under test is the first in source order.
C16_NoTopLevelFunction ==
    (vpc = "done" /\ code.parses) =>
        IF FirstDef(code.body) = <<>>
        THEN vresult = SyntaxOnlyResult /\ exec_count = 0
        ELSE vresult.function_tested = FirstDef(code.body)

ExecFailed ==
    /\ exec_count = 1
    /\ \/ ~NoRaise(code.body)
       \/ Lookup(ns, fn[1]) = <<>>
       \/ Lookup(ns, fn[1]) # <<>> /\ ~Lookup(ns, fn[1])[1].callable

\* C17: when executing the payload raises, or leaves the function under
\* test unbound or not callable, verify_code runs no test vector and
\* returns (it does not raise) a result with syntax_ok=true, tests_run=0,
\* tests_passed=0 and exactly one error.
C17_ExecFailureReturned ==
    ExecFailed =>
        /\ vpc \in {"lookup", "done"}
        /\ call_log = <<>>
        /\ vpc = "done" =>
              /\ vresult.syntax_ok
              /\ vresult.tests_run = 0
              /\ vresult.tests_passed = 0
              /\ Len(vresult.errors) = 1

\* C18: every result verify_code returns has 0 <= tests_passed <= tests_run
\* and tests_run 0 or 4; syntax_ok=false comes with tests_run=0 and no
\* function_tested; tests_run=4 comes with syntax_ok=true and a
\* function_tested whose name has "sort" in it; all tests passing comes
\* with an empty error list.
C18_ResultShape ==
    vpc = "done" =>
        /\ 0 <= vresult.tests_passed
        /\ vresult.tests_passed <= vresult.tests_run
        /\ vresult.tests_run \in {0, 4}
        /\ ~vresult.syntax_ok =>
              vresult.tests_run = 0 /\ vresult.function_tested = <<>>
        /\ vresult.tests_run = 4 =>
              /\ vresult.syntax_ok
              /\ vresult.function_tested # <<>>
              /\ NameHasSort(vresult.function_tested[1])
        /\ (vresult.tests_passed = vresult.tests_run
              /\ vresult.tests_run > 0) => vresult.errors = <<>>

\* a returned result of four tests, one of them failed
C18_Witness ==
    /\ vpc = "done"
    /\ vresult.tests_run = 4
    /\ vresult.tests_passed = 3
    /\ Len(vresult.errors) = 1

\* C11: a second call of verify_code on the same payload returns what the
\* first call returned: the same syntax_ok, tests_run, tests_passed, error
\* list and function_tested; and it raises when the first call did.
C11_Idempotent ==
    call_no = 2 =>
        /\ vpc = "done" => first_result = <<vresult>>
        /\ vpc = "raised" => first_result = <<>>

\* the second call has returned a result of four tests with errors
C11_Witness ==
    /\ call_no = 2
    /\ vpc = "done"
    /\ vresult.tests_run = 4
    /\ Len(vresult.errors) = 2
    /\ first_result # <<>>

InitExtract ==
    RunIdle /\ StopIdle /\ VerifyIdle /\ CallerIdle /\ ExtractInit /\ GenIdle

NextExtract ==
    CallExtract /\ UNCHANGED <<runVars, stopVars, verVars, callerVars, genVars>>

SpecExtract == InitExtract /\ [][NextExtract]_vars

(***************************************************************************)
(* Properties of extract_code_blocks                                       *)
(***************************************************************************)
\* the first position >= n where a fence starts, 0 if there is none
FenceFrom(t, n) ==
    LET S == {i \in n..Len(t) : IsFenceAt(t, i)}
    IN  IF S = {} THEN 0 ELSE CHOOSE i \in S : \A j \in S : i <= j

\* s without the white space at its two ends
Trimmed(s) ==
    LET I == {i \in 1..Len(s) : s[i] \notin Whitespace}
    IN  IF I = {} THEN <<>>
        ELSE SubSeq(s, CHOOSE i \in I : \A j \in I : i <= j,
                       CHOOSE i \in I : \A j \in I : j <= i)

StartsWithPython(s) ==
    /\ Len(s) >= 6
    /\ s[1] \in {"p", "P"} /\ s[2] \in {"y", "Y"} /\ s[3] \in {"t", "T"}
    /\ s[4] \in {"h", "H"} /\ s[5] \in {"o", "O"} /\ s[6] \in {"n", "N"}

\* the length of the language tag s starts with, when the tag is the word
\* python in any case
PythonTagLen(s) == IF StartsWithPython(s) THEN 6 ELSE 0

IsLetter(c) ==
    c \in DOMAIN UpperToLower
    \/ c \in {UpperToLower[u] : u \in DOMAIN UpperToLower}

\* the length of the language tag s starts with, when the tag is the word
\* python in any case or any other word that ends the fence line
AnyTagLen(s) ==
    IF StartsWithPython(s) THEN 6
    ELSE LET E == {n \in 1..(Len(s) - 1) :
                     /\ \A i \in 1..n : IsLetter(s[i])
                     /\ s[n + 1] \in LineBreaks}
         IN  IF E = {} THEN 0 ELSE CHOOSE n \in E : TRUE

\* the payload of the block between the fences at o and c
PayloadPython(t, o, c) ==
    LET s == SubSeq(t, o + 3, c - 1)
    IN  Trimmed(SubSeq(s, PythonTagLen(s) + 1, Len(s)))

PayloadAnyTag(t, o, c) ==
    LET s == SubSeq(t, o + 3, c - 1)
    IN  Trimmed(SubSeq(s, AnyTagLen(s) + 1, Len(s)))

RECURSIVE BlocksPython(_, _)
\* the fenced blocks of t from position n on, in source order: a block
\* runs from a fence to the next fence after it
BlocksPython(t, n) ==
    LET o == FenceFrom(t, n)
        c == IF o = 0 THEN 0 ELSE FenceFrom(t, o + 3)
    IN  IF c = 0 THEN <<>>
        ELSE <<PayloadPython(t, o, c)>> \o BlocksPython(t, c + 3)

RECURSIVE BlocksAnyTag(_, _)
BlocksAnyTag(t, n) ==
    LET o == FenceFrom(t, n)
        c == IF o = 0 THEN 0 ELSE FenceFrom(t, o + 3)
    IN  IF c = 0 THEN <<>>
        ELSE <<PayloadAnyTag(t, o, c)>> \o BlocksAnyTag(t, c + 3)

ExtractExamples ==
    /\ arg_text = T_TwoBlocks =>
          ret_blocks[1] = << <<"x", "\n", "\n", "y">>, <<"z">> >>
    /\ arg_text = T_NoFence => ret_blocks[1] = <<>>

\* C13 as stated: one payload per fenced block, in source order, trimmed,
\* without the language tag that follows the opening fence, whatever the
\* language; two blocks give two payloads, no fence gives the empty list.
C13_AnyTagExcluded ==
    ret_blocks # <<>> =>
        /\ ret_blocks[1] = BlocksAnyTag(arg_text, 1)
        /\ ExtractExamples

\* C13 amended: one payload per fenced block, in source order, trimmed,
\* without the word python (in any case) when it follows the opening
\* fence; any other tag stays in the payload; two blocks give two
\* payloads, no fence gives the empty list.
C13_PythonTagExcluded ==
    ret_blocks # <<>> =>
        /\ ret_blocks[1] = BlocksPython(arg_text, 1)
        /\ ExtractExamples

\* the text of two blocks, the first tagged python, gave its two payloads
C13_Witness ==
    /\ arg_text = T_TwoBlocks
    /\ ret_blocks # <<>>
    /\ Len(ret_blocks[1]) = 2

InitGen ==
    RunIdle /\ StopIdle /\ VerifyIdle /\ CallerIdle /\ ExtractIdle /\ GenInit

NextGen ==
    \/ NoCodeBlock /\ UNCHANGED <<runVars, stopVars, callerVars, extractVars>>
    \/ VerifyFirst /\ UNCHANGED <<runVars, stopVars, callerVars, extractVars>>
    \/ ReturnVerification
          /\ UNCHANGED <<runVars, stopVars, callerVars, extractVars>>
    \/ GenEscapes /\ UNCHANGED <<runVars, stopVars, callerVars, extractVars>>
    \/ ParseError
          /\ UNCHANGED <<runVars, stopVars, callerVars, extractVars, genVars>>
    \/ ParseOk
          /\ UNCHANGED <<runVars, stopVars, callerVars, extractVars, genVars>>
    \/ NoFunctions
          /\ UNCHANGED <<runVars, stopVars, callerVars, extractVars, genVars>>
    \/ PickFunction
          /\ UNCHANGED <<runVars, stopVars, callerVars, extractVars, genVars>>
    \/ ExecRaises
          /\ UNCHANGED <<runVars, stopVars, callerVars, extractVars, genVars>>
    \/ ExecEscapes
          /\ UNCHANGED <<runVars, stopVars, callerVars, extractVars, genVars>>
    \/ ExecOk
          /\ UNCHANGED <<runVars, stopVars, callerVars, extractVars, genVars>>
    \/ NotFound
          /\ UNCHANGED <<runVars, stopVars, callerVars, extractVars, genVars>>
    \/ Found
          /\ UNCHANGED <<runVars, stopVars, callerVars, extractVars, genVars>>
    \/ RunTest
          /\ UNCHANGED <<runVars, stopVars, callerVars, extractVars, genVars>>
    \/ TestEscapes
          /\ UNCHANGED <<runVars, stopVars, callerVars, extractVars, genVars>>
    \/ Finish
          /\ UNCHANGED <<runVars, stopVars, callerVars, extractVars, genVars>>

SpecGen == InitGen /\ [][NextGen]_vars

(***************************************************************************)
(* Properties of verify_generation_text                                    *)
(***************************************************************************)
\* t holds a fenced block: a fence and another fence after it
HasBlock(t) ==
    \E o \in 1..Len(t) : \E c \in (o + 3)..Len(t) :
        IsFenceAt(t, o) /\ IsFenceAt(t, c)

\* the payload of the first fenced block of t
FirstBlock(t) ==
    PayloadPython(t, FenceFrom(t, 1), FenceFrom(t, FenceFrom(t, 1) + 3))

\* C12: verify_generation_text returns found_code false with verification
\* {syntax_ok: false, errors: ["No code block found"]} exactly when the
\* text holds no fenced block; otherwise it returns found_code true with
\* what verify_code returned for the first block, whatever the later
\* blocks are.
C12_FirstBlockOnly ==
    gpc = "done" =>
        IF ~HasBlock(generation)
        THEN /\ gresult[1].found_code = FALSE
             /\ DOMAIN gresult[1].verification = {"syntax_ok", "errors"}
             /\ gresult[1].verification.syntax_ok = FALSE
             /\ gresult[1].verification.errors = <<"No code block found">>
        ELSE /\ gresult[1].found_code = TRUE
             /\ vpc = "done"
             /\ code \in ParsePayload(FirstBlock(generation))
             /\ gresult[1].verification = vresult

\* a text of two blocks, the first a correct merge_sort and the second a
\* syntax error, was verified: all four tests passed
C12_Witness ==
    /\ gpc = "done"
    /\ Len(codes) = 2
    /\ ParsePayload(codes[2]) = {[parses |-> FALSE, body |-> <<>>]}
    /\ gresult[1].found_code
    /\ gresult[1].verification.syntax_ok
    /\ gresult[1].verification.tests_passed = 4

====
